---------------------------- MODULE Spec2Model ----------------------------
(***************************************************************************)
(* Model of plur/stage_1/manysstubs4j_dataset.py:                          *)
(*   - JsonExtractor: reads the records of a ManySStuBs4J json file,       *)
(*     tokenizes the code before and after each patch and yields raw data  *)
(*     dictionaries {split, tokens, label};                                *)
(*   - ManySStuBs4JDataset.raw_data_to_graph_to_output_example: builds the *)
(*     NEXT_TOKEN chain graph of one raw data dictionary, applies the      *)
(*     transformation functions, validates, applies the filter functions.  *)
(***************************************************************************)
EXTENDS Integers, Sequences, FiniteSets

(***************************************************************************)
(* Bounds of the model.                                                    *)
(***************************************************************************)
\* Largest number of records in the json file.
MaxRecords == 2
\* Largest number of tokens of a raw data dictionary given to the converter.
MaxTokens == 2
\* Largest number of transformation functions of the dataset.
MaxTransformations == 2
\* Largest number of filter functions of the dataset.
MaxFilters == 2

(***************************************************************************)
(* Helpers on sequences.                                                   *)
(***************************************************************************)
RECURSIVE Flatten(_)
\* ''.join(parts): the concatenation of a sequence of sequences.
Flatten(parts) ==
  IF parts = <<>> THEN <<>> ELSE Head(parts) \o Flatten(Tail(parts))

\* The sequences over S of length at most n.
SeqsUpTo(S, n) == UNION {[1..k -> S] : k \in 0..n}

(***************************************************************************)
(* The input: a json array of objects with the keys fixPatch and bugType.  *)
(* A patch is the sequence of the lines of its single hunk; a line is its  *)
(* diff marker (" ", "-" or "+") followed by its text, here one lexeme:    *)
(* "x" an identifier, "1" a decimal integer, " " white space and "#" a     *)
(* character no Java token starts with.                                    *)
(***************************************************************************)
Patches ==
  { << <<"-", "x">>, <<"+", "1">> >>,
    << <<" ", "x">>, <<"-", "1">>, <<"+", "x">> >>,
    << <<"-", "x">> >>,
    << <<"+", "x">> >>,
    << <<"-", " ">>, <<"+", "x">> >>,
    << <<"-", "#">>, <<"+", "x">> >>,
    << <<" ", "x">>, <<"-", "#">>, <<"+", "1">> >>,
    << <<"-", "x">>, <<"+", "#">> >> }

BugTypes == {"CHANGE_IDENTIFIER", "WRONG_FUNCTION_NAME"}

JsonData == [fixPatch : Patches, bugType : BugTypes]

\* The seeds a dataset may be built with.
Seeds == {0, 3}

\* The runs of the extraction: run 1, and run 2 repeating it.
Runs == {1, 2}

VARIABLES
  input,      \* json.load(json_file_reader): the records of the file
  seed,       \* the seed of the dataset
  gen,        \* gen[r]: state of the split generator of run r's dataset
  pos,        \* pos[r]: number of records the for loop of run r has finished
  pc,         \* pc[r]: where the generator of run r is suspended
  emitted,    \* emitted[r]: the raw data dictionaries process has yielded
  draws,      \* draws[r]: the splits random_split_fn has returned to run r
  origin,     \* origin[r][i]: index of the record emitted[r][i] comes from
  raw_data,   \* argument of raw_data_to_graph_to_output_example
  transformation_funcs, \* self.transformation_funcs
  filter_funcs,         \* self.filter_funcs
  cpc,        \* position in raw_data_to_graph_to_output_example
  graph,      \* the local graph_to_output_example (None when filtered out)
  tIdx,       \* number of transformation functions applied
  fIdx,       \* number of filter functions called
  calls,      \* the calls made on hooks and check_if_valid, in order
  outcome     \* what the call returned or raised

evars == <<input, seed, gen, pos, pc, emitted, draws, origin>>
cvars == <<raw_data, transformation_funcs, filter_funcs, cpc, graph, tIdx,
           fIdx, calls, outcome>>
vars == <<input, seed, gen, pos, pc, emitted, draws, origin, raw_data,
          transformation_funcs, filter_funcs, cpc, graph, tIdx, fIdx, calls,
          outcome>>

(***************************************************************************)
(* unidiff: the code before the change is made of the context and removed  *)
(* lines of the hunk, the code after of the context and added lines.       *)
(***************************************************************************)
hunk_source(patch) ==
  SelectSeq(patch, LAMBDA line : line[1] \in {" ", "-"})

hunk_target(patch) ==
  SelectSeq(patch, LAMBDA line : line[1] \in {" ", "+"})

\* ''.join([line[1:] for line in lines])
JoinLines(lines) ==
  Flatten([i \in 1..Len(lines) |-> Tail(lines[i])])

(***************************************************************************)
(* javalang.tokenizer.tokenize: a generator of tokens that skips white     *)
(* space and raises LexerError at a character it cannot process.  The      *)
(* result is the list the caller's loop has built so far and whether the   *)
(* generator raised.                                                       *)
(***************************************************************************)
TokenType(c) == IF c = "x" THEN "Identifier" ELSE "DecimalInteger"

RECURSIVE tokenize(_, _)
tokenize(code, acc) ==
  IF code = <<>> THEN [raised |-> FALSE, tokens |-> acc]
  ELSE IF Head(code) = " " THEN tokenize(Tail(code), acc)
  ELSE IF Head(code) = "#" THEN [raised |-> TRUE, tokens |-> acc]
  ELSE tokenize(Tail(code), Append(acc, <<TokenType(Head(code)), Head(code)>>))

\* The except clause of _patch_to_source_and_target_tokens.
OnLexerError == << <<>>, <<>> >>

\* The except clause returning the lists built when the error was raised.
patch_to_tokens_keeping_partial(patch_str) ==
  <<tokenize(JoinLines(hunk_source(patch_str)), <<>>).tokens,
    tokenize(JoinLines(hunk_target(patch_str)), <<>>).tokens>>

\* One try block per snippet: an error empties the list of that snippet only.
patch_to_tokens_separate_try(patch_str) ==
  LET src == tokenize(JoinLines(hunk_source(patch_str)), <<>>)
      tgt == tokenize(JoinLines(hunk_target(patch_str)), <<>>)
  IN  <<IF src.raised THEN <<>> ELSE src.tokens,
        IF tgt.raised THEN <<>> ELSE tgt.tokens>>

\* _patch_to_source_and_target_tokens: one try block around both loops.
patch_to_source_and_target_tokens(patch_str) ==
  LET source == JoinLines(hunk_source(patch_str))
      target == JoinLines(hunk_target(patch_str))
      src == tokenize(source, <<>>)
      tgt == tokenize(target, <<>>)
  IN  IF src.raised \/ tgt.raised
      THEN OnLexerError
      ELSE <<src.tokens, tgt.tokens>>

(***************************************************************************)
(* PlurDataset.get_random_split: a seeded pseudo-random generator and the  *)
(* split it draws with the weights user_defined_split_range.               *)
(***************************************************************************)
user_defined_split_range == <<80, 10, 10>>

\* The generator's next state: a full-period congruential step modulo 100.
NextGen(g) == (21 * g + 17) % 100

\* random.choices(splits, weights=user_defined_split_range)[0]
SplitOf(g) ==
  IF g < user_defined_split_range[1] THEN "train"
  ELSE IF g < user_defined_split_range[1] + user_defined_split_range[2]
       THEN "validation"
       ELSE "test"

Splits == {"train", "validation", "test"}

\* The generator random_split_fn of run r's JsonExtractor draws from.
random_split_fn_shared(r) == 1

random_split_fn(r) == r

(***************************************************************************)
(* JsonExtractor._raw_data_dict_generator, one iteration of the for loop   *)
(* in up to two steps: the generator is suspended at each yield.           *)
(***************************************************************************)
\* The label of the record of the code after the change.
NoBugLabel == "NO_BUG"

\* The test of line 257 on the tokens of the record the loop is at.
SourceIsEmpty(tokens) == tokens[1] = <<>>

CurrentTokens(r) ==
  patch_to_source_and_target_tokens(input[pos[r] + 1].fixPatch)

\* 'tokens': source_tokens, of the first yield.
BeforeRecordTokens(tokens) == tokens[1]

AfterRecordTokensCopied(tokens) == tokens[1]

\* 'tokens': target_tokens, of the second yield.
AfterRecordTokens(tokens) == tokens[2]

\* One draw per record of the file: the second yield reuses the split of the
\* first.
YieldRecordReusingSplit(r, tokens, label) ==
  LET g == random_split_fn(r)
      reuse == label = "NO_BUG"
      split == IF reuse THEN emitted[r][Len(emitted[r])].split
               ELSE SplitOf(NextGen(gen[g]))
  IN  /\ gen' = IF reuse THEN gen ELSE [gen EXCEPT ![g] = NextGen(gen[g])]
      /\ draws' = IF reuse THEN draws ELSE [draws EXCEPT ![r] = Append(@, split)]
      /\ emitted' = [emitted EXCEPT ![r] =
            Append(@, [split |-> split, tokens |-> tokens, label |-> label])]
      /\ origin' = [origin EXCEPT ![r] = Append(@, pos[r] + 1)]

\* yield {'split': self.random_split_fn(), 'tokens': tokens, 'label': label}
\* consumed by process, which yields it in turn.
YieldRecord(r, tokens, label) ==
  LET g == random_split_fn(r)
      split == SplitOf(NextGen(gen[g]))
  IN  /\ gen' = [gen EXCEPT ![g] = NextGen(gen[g])]
      /\ draws' = [draws EXCEPT ![r] = Append(@, split)]
      /\ emitted' = [emitted EXCEPT ![r] =
            Append(@, [split |-> split, tokens |-> tokens, label |-> label])]
      /\ origin' = [origin EXCEPT ![r] = Append(@, pos[r] + 1)]

\* if not source_tokens: continue
Discard(r) ==
  /\ pc[r] = "loop"
  /\ pos[r] < Len(input)
  /\ SourceIsEmpty(CurrentTokens(r))
  /\ pos' = [pos EXCEPT ![r] = @ + 1]
  /\ UNCHANGED <<input, seed, gen, pc, emitted, draws, origin>>
  /\ UNCHANGED cvars

\* The first yield: the code before the change, with the bug type.
YieldBefore(r) ==
  /\ pc[r] = "loop"
  /\ pos[r] < Len(input)
  /\ ~SourceIsEmpty(CurrentTokens(r))
  /\ YieldRecord(r, BeforeRecordTokens(CurrentTokens(r)),
                 input[pos[r] + 1].bugType)
  /\ pc' = [pc EXCEPT ![r] = "yielded_before"]
  /\ UNCHANGED <<input, seed, pos>>
  /\ UNCHANGED cvars

\* The second yield: the code after the change, bug free.
YieldAfter(r) ==
  /\ pc[r] = "yielded_before"
  /\ YieldRecord(r, AfterRecordTokens(CurrentTokens(r)), NoBugLabel)
  /\ pc' = [pc EXCEPT ![r] = "loop"]
  /\ pos' = [pos EXCEPT ![r] = @ + 1]
  /\ UNCHANGED <<input, seed>>
  /\ UNCHANGED cvars

\* The for loop is exhausted: the generator returns and process closes f.
Finish(r) ==
  /\ pc[r] = "loop"
  /\ pos[r] = Len(input)
  /\ pc' = [pc EXCEPT ![r] = "done"]
  /\ UNCHANGED <<input, seed, gen, pos, emitted, draws, origin>>
  /\ UNCHANGED cvars

(***************************************************************************)
(* GraphToOutputExample (plur/utils/graph_to_output_example.py): nodes in  *)
(* insertion order, a set of typed edges and the outputs set so far.  inst *)
(* tells the instances apart.                                              *)
(***************************************************************************)
NewGraphToOutputExample(inst) ==
  [inst |-> inst, nodes |-> <<>>, edges |-> {}, output |-> <<>>]

\* The value None of the local graph_to_output_example.
None == NewGraphToOutputExample(-1)

add_node(g, id, type, value) ==
  [g EXCEPT !.nodes = Append(@, [id |-> id, type |-> type, value |-> value])]

add_edge(g, src, dst, type) ==
  [g EXCEPT !.edges = @ \cup {<<src, dst, type>>}]

add_class_output(g, label) ==
  [g EXCEPT !.output = Append(@, label)]

get_nodes(g) == g.nodes

NodeIds(g) == {g.nodes[i].id : i \in 1..Len(g.nodes)}

\* Every edge joins existing nodes, exactly one output is set and the node
\* ids are exactly 0..N-1.
check_if_valid(g) ==
  /\ \A e \in g.edges : e[1] \in NodeIds(g) /\ e[2] \in NodeIds(g)
  /\ Len(g.output) = 1
  /\ NodeIds(g) = 0..(Len(g.nodes) - 1)

(***************************************************************************)
(* The hooks a dataset may be configured with.  Transformation functions   *)
(* map a graph to a graph, filter functions map a graph to a boolean.      *)
(***************************************************************************)
TransformationFns == {"append_node", "dangling_edge", "rebuild"}

FilterFns == {"has_nodes", "has_bug"}

\* transformation_fn(graph_to_output_example)
ApplyTransformation(fn, g) ==
  CASE fn = "append_node" ->
         add_node(g, Len(get_nodes(g)), "Separator", ";")
    [] fn = "dangling_edge" ->
         add_edge(g, 0, Len(get_nodes(g)), "LAST_TOKEN")
    [] fn = "rebuild" ->
         [g EXCEPT !.inst = @ + 1]

\* filter_fn(graph_to_output_example)
ApplyFilter(fn, g) ==
  CASE fn = "has_nodes" -> Len(get_nodes(g)) > 0
    [] fn = "has_bug" -> g.output # <<"NO_BUG">>

(***************************************************************************)
(* ManySStuBs4JDataset.raw_data_to_graph_to_output_example.                *)
(***************************************************************************)
RECURSIVE AddNodes(_, _, _)
\* for index, (token_type, token_value) in enumerate(tokens): add_node(...)
AddNodes(g, tokens, index) ==
  IF index >= Len(tokens) THEN g
  ELSE AddNodes(add_node(g, index, tokens[index + 1][1], tokens[index + 1][2]),
                tokens, index + 1)

ChainRangeOffByOne(g) == Len(get_nodes(g))

\* The argument of range() in the loop that links the chain.
ChainRange(g) == Len(get_nodes(g)) - 1

RECURSIVE AddChainEdges(_, _, _)
\* for i in range(n): add_edge(i, i+1, 'NEXT_TOKEN')
AddChainEdges(g, i, n) ==
  IF i >= n THEN g
  ELSE AddChainEdges(add_edge(g, i, i + 1, "NEXT_TOKEN"), i + 1, n)

\* The graph built from the tokens and the label, before the hooks.
ChainGraph(tokens, label) ==
  LET g0 == NewGraphToOutputExample(0)
      g1 == AddNodes(g0, tokens, 0)
      g2 == AddChainEdges(g1, 0, ChainRange(g1))
  IN  add_class_output(g2, label)

AfterTransformationDiscarded(g, ret) == g

\* graph_to_output_example = transformation_fn(graph_to_output_example)
AfterTransformation(g, ret) == ret

AfterRejectContinue == "filter"

\* The break of the loop over the filters: on to the return statement.
AfterReject == "return"

Call(fn, idx, arg, ret) == [fn |-> fn, idx |-> idx, arg |-> arg, ret |-> ret]

\* Lines 162-177: the chain graph of the raw data.
Construct ==
  /\ cpc = "start"
  /\ graph' = ChainGraph(raw_data.tokens, raw_data.label)
  /\ cpc' = "transform"
  /\ UNCHANGED <<raw_data, transformation_funcs, filter_funcs, tIdx, fIdx,
                 calls, outcome>>
  /\ UNCHANGED evars

\* Lines 179-180: one iteration of the loop over the transformations.
Transform ==
  /\ cpc = "transform"
  /\ tIdx < Len(transformation_funcs)
  /\ LET fn == transformation_funcs[tIdx + 1]
         ret == ApplyTransformation(fn, graph)
     IN  /\ graph' = AfterTransformation(graph, ret)
         /\ calls' = Append(calls, Call("transformation", tIdx + 1, graph, ret))
  /\ tIdx' = tIdx + 1
  /\ UNCHANGED <<raw_data, transformation_funcs, filter_funcs, cpc, fIdx,
                 outcome>>
  /\ UNCHANGED evars

\* The graph is not valid and is dropped like a filtered one.
ValidateDropsInvalid ==
  /\ cpc = "transform"
  /\ tIdx = Len(transformation_funcs)
  /\ ~check_if_valid(graph)
  /\ calls' = Append(calls, Call("check_if_valid", 0, graph, FALSE))
  /\ graph' = None
  /\ cpc' = "return"
  /\ UNCHANGED <<raw_data, transformation_funcs, filter_funcs, tIdx, fIdx,
                 outcome>>
  /\ UNCHANGED evars

\* The graph is not valid and goes on to the filters all the same.
ValidateIgnoresInvalid ==
  /\ cpc = "transform"
  /\ tIdx = Len(transformation_funcs)
  /\ ~check_if_valid(graph)
  /\ calls' = Append(calls, Call("check_if_valid", 0, graph, FALSE))
  /\ cpc' = "filter"
  /\ UNCHANGED <<raw_data, transformation_funcs, filter_funcs, graph, tIdx,
                 fIdx, outcome>>
  /\ UNCHANGED evars

\* Lines 182-185: the graph is not valid, the error is raised.
ValidateRaise ==
  /\ cpc = "transform"
  /\ tIdx = Len(transformation_funcs)
  /\ ~check_if_valid(graph)
  /\ calls' = Append(calls, Call("check_if_valid", 0, graph, FALSE))
  /\ outcome' = [kind |-> "raised",
                 error |-> "GraphToOutputExampleNotValidError"]
  /\ cpc' = "raised"
  /\ UNCHANGED <<raw_data, transformation_funcs, filter_funcs, graph, tIdx,
                 fIdx>>
  /\ UNCHANGED evars

\* Line 182: the graph is valid, the filters come next.
ValidatePass ==
  /\ cpc = "transform"
  /\ tIdx = Len(transformation_funcs)
  /\ check_if_valid(graph)
  /\ calls' = Append(calls, Call("check_if_valid", 0, graph, TRUE))
  /\ cpc' = "filter"
  /\ UNCHANGED <<raw_data, transformation_funcs, filter_funcs, graph, tIdx,
                 fIdx, outcome>>
  /\ UNCHANGED evars

\* Lines 187-190: one iteration of the loop over the filters.
Filter ==
  /\ cpc = "filter"
  /\ fIdx < Len(filter_funcs)
  /\ LET fn == filter_funcs[fIdx + 1]
         ret == ApplyFilter(fn, graph)
     IN  /\ calls' = Append(calls, Call("filter", fIdx + 1, graph, ret))
         /\ IF ret
            THEN graph' = graph /\ cpc' = cpc
            ELSE graph' = None /\ cpc' = AfterReject
  /\ fIdx' = fIdx + 1
  /\ UNCHANGED <<raw_data, transformation_funcs, filter_funcs, tIdx, outcome>>
  /\ UNCHANGED evars

\* Line 192: the result, after the last filter or the break.
Return ==
  /\ \/ cpc = "filter" /\ fIdx = Len(filter_funcs)
     \/ cpc = "return"
  /\ outcome' = [kind |-> "returned", split |-> raw_data.split,
                 GraphToOutputExample |-> graph]
  /\ cpc' = "returned"
  /\ UNCHANGED <<raw_data, transformation_funcs, filter_funcs, graph, tIdx,
                 fIdx, calls>>
  /\ UNCHANGED evars

\* The tokens javalang yields for the lexemes of the input.
Tokens == {<<TokenType(c), c>> : c \in {"x", "1"}}

\* The raw data dictionaries the extraction can yield: the code before a
\* change has tokens and a bug type, the code after has the label NO_BUG.
RawData ==
  {d \in [split : Splits,
          tokens : SeqsUpTo(Tokens, MaxTokens),
          label : {"CHANGE_IDENTIFIER", NoBugLabel}] :
     d.label # NoBugLabel => d.tokens # <<>>}

\* The extraction before any call.
ExtractIdle ==
  /\ input = <<>>
  /\ seed = 0
  /\ gen = [r \in Runs |-> seed]
  /\ pos = [r \in Runs |-> 0]
  /\ pc = [r \in Runs |-> "loop"]
  /\ emitted = [r \in Runs |-> <<>>]
  /\ draws = [r \in Runs |-> <<>>]
  /\ origin = [r \in Runs |-> <<>>]

\* A call of raw_data_to_graph_to_output_example on a configured dataset.
InitConvert ==
  /\ ExtractIdle
  /\ raw_data \in RawData
  /\ transformation_funcs \in SeqsUpTo(TransformationFns, MaxTransformations)
  /\ filter_funcs \in SeqsUpTo(FilterFns, MaxFilters)
  /\ cpc = "start"
  /\ graph = None
  /\ tIdx = 0
  /\ fIdx = 0
  /\ calls = <<>>
  /\ outcome = [kind |-> "none"]

NextConvert ==
  Construct \/ Transform \/ ValidateRaise \/ ValidatePass \/ Filter \/ Return

SpecConvert == InitConvert /\ [][NextConvert]_vars

\* The converter before any call.
ConvertIdle ==
  /\ raw_data = [split |-> "train", tokens |-> <<>>, label |-> NoBugLabel]
  /\ transformation_funcs = <<>>
  /\ filter_funcs = <<>>
  /\ cpc = "idle"
  /\ graph = None
  /\ tIdx = 0
  /\ fIdx = 0
  /\ calls = <<>>
  /\ outcome = [kind |-> "none"]

InitExtract ==
  /\ input \in SeqsUpTo(JsonData, MaxRecords)
  /\ seed \in Seeds
  /\ gen = [r \in Runs |-> seed]
  /\ pos = [r \in Runs |-> 0]
  /\ pc = [r \in Runs |-> "loop"]
  /\ emitted = [r \in Runs |-> <<>>]
  /\ draws = [r \in Runs |-> <<>>]
  /\ origin = [r \in Runs |-> <<>>]

Init == InitExtract /\ ConvertIdle

Step(r) == Discard(r) \/ YieldBefore(r) \/ YieldAfter(r) \/ Finish(r)

Next == Step(1)

\* One extraction of the file.
Spec == Init /\ [][Next]_vars

NextTwoRuns == \E r \in Runs : Step(r)

\* Two extractions of the same file, each with its own dataset, seeded alike.
SpecTwoRuns == Init /\ [][NextTwoRuns]_vars

(***************************************************************************)
(* Properties of the extraction.                                           *)
(***************************************************************************)
\* What the tokenizer does on the code before and after the change of a
\* record of the file.
BeforeTokenized(rec) == tokenize(JoinLines(hunk_source(rec.fixPatch)), <<>>)

AfterTokenized(rec) == tokenize(JoinLines(hunk_target(rec.fixPatch)), <<>>)

\* The code before the change yields no token: the tokenizer raised on it,
\* or it holds no token.
BeforeYieldsNoToken(rec) ==
  BeforeTokenized(rec).raised \/ BeforeTokenized(rec).tokens = <<>>

\* The code before the change has tokens and the tokenizer raises on the
\* code after it.
OnlyAfterRaises(rec) ==
  /\ ~BeforeTokenized(rec).raised
  /\ BeforeTokenized(rec).tokens # <<>>
  /\ AfterTokenized(rec).raised

\* Both tokenize and the code before the change has tokens.
BothTokenize(rec) ==
  /\ ~BeforeTokenized(rec).raised
  /\ BeforeTokenized(rec).tokens # <<>>
  /\ ~AfterTokenized(rec).raised

\* The places in emitted[r] of the raw data that come from record k.
EmittedFrom(r, k) == {i \in 1..Len(origin[r]) : origin[r][i] = k}

\* C2: when the loop is at a record whose code before the change yields no
\* token (lexer error, or no token at all), the step it takes emits nothing
\* for that record, raises nothing and leaves the loop at the next record.
C2_NoTokenRecordIsSkipped ==
  [][ \A k \in 1..Len(input) :
        (pc[1] = "loop" /\ pos[1] = k - 1 /\ BeforeYieldsNoToken(input[k]))
          => /\ emitted'[1] = emitted[1]
             /\ pc'[1] = "loop"
             /\ pos'[1] = k ]_vars

\* C2 witness: the first record raised a lexer error in the code before the
\* change, was skipped, and the second record has been emitted in full.
C2_Witness ==
  /\ Len(input) = 2
  /\ BeforeTokenized(input[1]).raised
  /\ pc[1] = "done"
  /\ EmittedFrom(1, 1) = {}
  /\ EmittedFrom(1, 2) = {1, 2}

C4_TwoRecordsInOrder ==
  /\ \A k \in 1..pos[1] :
       BothTokenize(input[k])
         => \E i \in 1..(Len(emitted[1]) - 1) :
              /\ EmittedFrom(1, k) = {i, i + 1}
              /\ emitted[1][i].tokens = BeforeTokenized(input[k]).tokens
              /\ emitted[1][i].label = input[k].bugType
              /\ emitted[1][i + 1].tokens = AfterTokenized(input[k]).tokens
              /\ emitted[1][i + 1].label = "NO_BUG"
  /\ \A i, j \in 1..Len(origin[1]) : i <= j => origin[1][i] <= origin[1][j]

\* C4 witness: two records emitted in full, one of them with no token after
\* the change.
C4_Witness ==
  /\ Len(input) = 2
  /\ pos[1] = 2
  /\ BothTokenize(input[1]) /\ BothTokenize(input[2])
  /\ input[1].bugType # input[2].bugType
  /\ AfterTokenized(input[1]).tokens = <<>>
  /\ Len(emitted[1]) = 4

RECURSIVE GenAfter(_, _)
\* The state of a generator seeded with g after n draws.
GenAfter(g, n) == IF n = 0 THEN g ELSE NextGen(GenAfter(g, n - 1))

\* C10: the split function is called once per emitted raw data, so twice per
\* emitted record and never for a discarded one: at any point the draws are
\* as many as the emitted raw data, the k-th emitted carries the k-th draw of
\* the seeded generator, the generator has advanced by that many draws and
\* the other generator has not moved.
C10_OneDrawPerEmitted ==
  /\ Len(draws[1]) = Len(emitted[1])
  /\ \A k \in 1..Len(emitted[1]) :
       /\ emitted[1][k].split = draws[1][k]
       /\ draws[1][k] = SplitOf(GenAfter(seed, k))
  /\ gen[1] = GenAfter(seed, Len(emitted[1]))
  /\ gen[2] = seed
  /\ \A k \in 1..pos[1] :
       Cardinality(EmittedFrom(1, k)) =
         IF BeforeYieldsNoToken(input[k]) \/ AfterTokenized(input[k]).raised
         THEN 0 ELSE 2

\* C10 witness: a record was discarded without a draw, and the two draws of
\* the next record gave different splits.
C10_Witness ==
  /\ Len(input) = 2
  /\ pc[1] = "done"
  /\ EmittedFrom(1, 1) = {}
  /\ Len(draws[1]) = 2
  /\ draws[1][1] # draws[1][2]

(***************************************************************************)
(* Properties of raw_data_to_graph_to_output_example.                      *)
(***************************************************************************)
\* The call has gone past the construction of the chain graph.
Constructed == cpc \notin {"idle", "start"}

\* The call has gone past the validation.
Validated == cpc \in {"filter", "return", "returned", "raised"}

\* C1: before any transformation function runs, the graph of N tokens has N
\* nodes, the i-th with id i, the type and the text of the i-th token, and
\* exactly the edges (i, i+1, NEXT_TOKEN) for i in 0..N-2: N-1 edges when
\* N >= 1, none when N <= 1.
C1_ChainGraph ==
  (cpc = "transform" /\ tIdx = 0) =>
    LET N == Len(raw_data.tokens)
    IN  /\ Len(graph.nodes) = N
        /\ \A i \in 0..(N - 1) :
             graph.nodes[i + 1] = [id |-> i,
                                   type |-> raw_data.tokens[i + 1][1],
                                   value |-> raw_data.tokens[i + 1][2]]
        /\ graph.edges = {<<i, i + 1, "NEXT_TOKEN">> : i \in 0..(N - 2)}
        /\ Cardinality(graph.edges) = IF N >= 1 THEN N - 1 ELSE 0

\* C1 witness: the chain graph of two tokens of different types is built.
C1_Witness ==
  /\ cpc = "transform" /\ tIdx = 0
  /\ Len(raw_data.tokens) = 2
  /\ raw_data.tokens[1] # raw_data.tokens[2]
  /\ Cardinality(graph.edges) = 1

RECURSIVE TransformedBy(_, _)
\* The graph the transformation functions fns make of g, applied in order.
TransformedBy(fns, g) ==
  IF fns = <<>> THEN g
  ELSE TransformedBy(Tail(fns), ApplyTransformation(Head(fns), g))

\* The graph of the raw data after all transformation functions.
FinalGraph ==
  TransformedBy(transformation_funcs,
                ChainGraph(raw_data.tokens, raw_data.label))

\* The calls of filter functions made so far.
FilterCalls == SelectSeq(calls, LAMBDA c : c.fn = "filter")

\* The calls of check_if_valid made so far.
ValidityCalls == SelectSeq(calls, LAMBDA c : c.fn = "check_if_valid")

\* C5: when the graph after all transformation functions is not valid, the
\* call raises GraphToOutputExampleNotValidError: no filter function is
\* called and nothing is returned.
C5_InvalidGraphRaises ==
  (Validated /\ ~check_if_valid(FinalGraph)) =>
    /\ cpc = "raised"
    /\ outcome = [kind |-> "raised",
                  error |-> "GraphToOutputExampleNotValidError"]
    /\ FilterCalls = <<>>

\* C5 witness: a transformation function left an edge to a missing node, and
\* the call has raised although filter functions were configured.
C5_Witness ==
  /\ cpc = "raised"
  /\ filter_funcs # <<>>
  /\ transformation_funcs # <<>>
  /\ \E e \in FinalGraph.edges : e[2] \notin NodeIds(FinalGraph)

\* The place of the first filter function that rejects g, 0 when none does.
FirstReject(g) ==
  LET rejecting == {j \in 1..Len(filter_funcs) :
                      ~ApplyFilter(filter_funcs[j], g)}
  IN  IF rejecting = {} THEN 0
      ELSE CHOOSE j \in rejecting : \A m \in rejecting : j <= m

\* C6: for a valid graph the filter functions are called in order, on that
\* graph, up to the first that returns false and no further; the call then
\* returns None as the example, or the graph when every filter function
\* returned true, and in both cases the split of the raw data.
C6_FiltersStopAtFirstReject ==
  cpc = "returned" =>
    LET r == FirstReject(FinalGraph)
        n == IF r = 0 THEN Len(filter_funcs) ELSE r
    IN  /\ Len(FilterCalls) = n
        /\ \A j \in 1..n :
             /\ FilterCalls[j].idx = j
             /\ FilterCalls[j].arg = FinalGraph
        /\ outcome.kind = "returned"
        /\ outcome.split = raw_data.split
        /\ outcome.GraphToOutputExample =
             IF r = 0 THEN FinalGraph ELSE None

\* C6 witness: the first of two filter functions rejected the graph, the
\* second was not called and the result holds None and the split.
C6_Witness ==
  /\ cpc = "returned"
  /\ Len(filter_funcs) = 2
  /\ Len(FilterCalls) = 1
  /\ outcome.GraphToOutputExample = None
  /\ outcome.split = "test"

\* C8: the transformation functions are called in order, the first on the
\* chain graph and each next one on what the one before returned;
\* check_if_valid is called once, after the last of them and before any
\* filter function, on the graph the last one returned.
C8_ValidationOnceAfterTransformations ==
  Constructed =>
    LET n == Len(transformation_funcs)
        chain == ChainGraph(raw_data.tokens, raw_data.label)
    IN  /\ \A i \in 1..Len(calls) :
             i <= n =>
               /\ calls[i].fn = "transformation"
               /\ calls[i].idx = i
               /\ calls[i].arg = IF i = 1 THEN chain ELSE calls[i - 1].ret
               /\ calls[i].ret =
                    ApplyTransformation(transformation_funcs[i], calls[i].arg)
        /\ Len(ValidityCalls) = IF Validated THEN 1 ELSE 0
        /\ Validated =>
             /\ Len(calls) > n
             /\ calls[n + 1].fn = "check_if_valid"
             /\ calls[n + 1].arg = IF n = 0 THEN chain ELSE calls[n].ret
        /\ \A i \in 1..Len(calls) : i > n + 1 => calls[i].fn = "filter"

\* C8 witness: two transformation functions ran, the last returned another
\* instance than the one constructed, it was validated and a filter
\* function was called after that.
C8_Witness ==
  /\ cpc = "returned"
  /\ Len(transformation_funcs) = 2
  /\ Len(calls) = 4
  /\ calls[1].ret # calls[1].arg
  /\ calls[3].arg.inst # 0
  /\ calls[4].fn = "filter"

\* C9: the example of a returned result is None or a graph check_if_valid
\* returned true for; a graph that failed validation is never returned.
C9_ReturnedExampleIsValid ==
  outcome.kind = "returned" =>
    \/ outcome.GraphToOutputExample = None
    \/ /\ check_if_valid(outcome.GraphToOutputExample)
       /\ \E i \in 1..Len(calls) :
            /\ calls[i].fn = "check_if_valid"
            /\ calls[i].arg = outcome.GraphToOutputExample
            /\ calls[i].ret = TRUE

\* C9 witness: a transformed graph went through both filter functions and is
\* returned.
C9_Witness ==
  /\ outcome.kind = "returned"
  /\ outcome.GraphToOutputExample # None
  /\ Len(transformation_funcs) = 2
  /\ Len(FilterCalls) = 2

=============================================================================
